---------------------------- MODULE Spec2Model ----------------------------
(***************************************************************************)
(* Model of scripts/patch_ordinals_api.py: a one-shot patcher that reads   *)
(* the file named by sys.argv[1] in text mode, replaces every occurrence   *)
(* of one hard-coded literal, and writes the text back to the same path.   *)
(*                                                                         *)
(* A file on disk is a sequence of bytes (one-character strings; only      *)
(* ASCII is modelled).  Text mode is modelled by what Python does: on      *)
(* read, universal newlines turn "\r\n" and a lone "\r" into "\n"; on      *)
(* write, every "\n" becomes os.linesep.                                   *)
(***************************************************************************)
EXTENDS Integers, Sequences, FiniteSets, TLC

VARIABLES
    argv,        \* sys.argv of the running process
    linesep,     \* os.linesep of the platform
    fs,          \* the target path on disk: [exists, readable, writable, data]
    pc,          \* the statement the process is at
    patch_path,  \* the module global patch_path ("" while unbound)
    filedata,    \* the module global filedata (<<>> while unbound)
    handles,     \* the open file objects on the target: subset of {"r", "w"}
    exc,         \* the exception propagating ("none" when there is none)
    failedAt,    \* the statement that raised it ("none" when there is none)
    trace,       \* the statements executed so far in this run, in order
    exitStatus,  \* the process's exit status (-1 while it runs)
    run,         \* which invocation of the script this is (1, 2, ...)
    fs0,         \* the target path on disk when this invocation started
    results      \* the file's bytes at the end of each finished invocation

vars == << argv, linesep, fs, pc, patch_path, filedata, handles, exc,
           failedAt, trace, exitStatus, run, fs0, results >>

---------------------------------------------------------------------------
(* Bounds of the model *)

\* A file's content is built of at most this many chunks.
MaxChunks == 3

\* The script is invoked at most this many times in succession.
MaxRuns == 2

\* The same for the runs checked for termination under fairness.
MaxLiveChunks == 1

---------------------------------------------------------------------------
(* The literals of the script *)

CR == "\r"
LF == "\n"

\* "export const BRC20_GENESIS_BLOCK = 779832;"
SEARCH ==
    << "e", "x", "p", "o", "r", "t", " ", "c", "o", "n", "s", "t",
       " ", "B", "R", "C", "2", "0", "_", "G", "E", "N", "E", "S",
       "I", "S", "_", "B", "L", "O", "C", "K", " ", "=", " ", "7",
       "7", "9", "8", "3", "2", ";" >>

\* "export const BRC20_GENESIS_BLOCK = 0;"
REPLACEMENT ==
    << "e", "x", "p", "o", "r", "t", " ", "c", "o", "n", "s", "t",
       " ", "B", "R", "C", "2", "0", "_", "G", "E", "N", "E", "S",
       "I", "S", "_", "B", "L", "O", "C", "K", " ", "=", " ", "0",
       ";" >>

---------------------------------------------------------------------------
(* The inputs: file contents, file systems, command lines *)

\* The search literal cut before its number: text that starts like the
\* literal and is not it.
LiteralHead == SubSeq(SEARCH, 1, Len(SEARCH) - 7)

Chunks == { SEARCH, LiteralHead, << CR >>, << LF >>, << "x" >> }

RECURSIVE ContentsUpTo(_)
ContentsUpTo(n) ==
    IF n = 0 THEN { << >> }
    ELSE LET shorter == ContentsUpTo(n - 1)
         IN  shorter \cup { c \o k : c \in shorter, k \in Chunks }

Contents == ContentsUpTo(MaxChunks)

NoFile == [exists |-> FALSE, readable |-> FALSE, writable |-> FALSE, data |-> << >>]

FileSystems ==
    { NoFile } \cup
    { [exists |-> TRUE, readable |-> r, writable |-> w, data |-> d] :
        r \in BOOLEAN, w \in BOOLEAN, d \in Contents }

CommandLines ==
    { << "patch_ordinals_api.py" >>, << "patch_ordinals_api.py", "target.ts" >> }

LineSeps == { << LF >>, << CR, LF >> }

---------------------------------------------------------------------------
(* Text mode: open(path, "r") and open(path, "w") with newline=None *)

\* What file.read() returns for the bytes b: universal newlines.  A "\r"
\* reads as "\n", and the "\n" of a "\r\n" pair is dropped.
Decode(b) ==
    LET kept == SelectSeq([i \in 1..Len(b) |-> i],
                          LAMBDA i : ~(b[i] = LF /\ i > 1 /\ b[i - 1] = CR))
    IN  [j \in 1..Len(kept) |-> IF b[kept[j]] = CR THEN LF ELSE b[kept[j]]]

\* The concatenation of parts[lo], ..., parts[hi].
RECURSIVE Concat(_, _, _)
Concat(parts, lo, hi) ==
    IF lo > hi THEN << >>
    ELSE IF lo = hi THEN parts[lo]
    ELSE LET mid == (lo + hi) \div 2
         IN  Concat(parts, lo, mid) \o Concat(parts, mid + 1, hi)

\* The bytes file.write(t) puts on disk: each "\n" becomes os.linesep.
EncodeWith(t, sep) ==
    Concat([i \in 1..Len(t) |-> IF t[i] = LF THEN sep ELSE << t[i] >>], 1, Len(t))

Encode(t) == EncodeWith(t, linesep)

---------------------------------------------------------------------------
(* str.replace(old, new): every occurrence, left to right, non-overlapping *)

\* The positions of s at which old occurs.
Occurrences(s, old) ==
    { i \in 1..(Len(s) - Len(old) + 1) : SubSeq(s, i, i + Len(old) - 1) = old }

First(S) == CHOOSE i \in S : \A j \in S : i <= j

\* Only the first occurrence: str.replace(old, new, 1).
ReplaceFirst(s, old, new) ==
    IF Occurrences(s, old) = {} THEN s
    ELSE LET i == First(Occurrences(s, old))
         IN  SubSeq(s, 1, i - 1) \o new \o SubSeq(s, i + Len(old), Len(s))

RECURSIVE ReplaceAll(_, _, _)
ReplaceAll(s, old, new) ==
    IF Occurrences(s, old) = {} THEN s
    ELSE LET i == First(Occurrences(s, old))
         IN  SubSeq(s, 1, i - 1) \o new
                \o ReplaceAll(SubSeq(s, i + Len(old), Len(s)), old, new)

replace(s, old, new) == ReplaceAll(s, old, new)

---------------------------------------------------------------------------
(* Control flow: exceptions and the two with blocks *)

\* open() in a mode that creates a missing file instead of raising.
open_error_Create(mode) ==
    IF fs.exists /\ ~(IF mode = "r" THEN fs.readable ELSE fs.writable)
    THEN "PermissionError"
    ELSE "none"

\* Why open(patch_path, mode) raises, or "none".
open_error(mode) ==
    IF mode = "r"
    THEN IF ~fs.exists THEN "FileNotFoundError"
         ELSE IF ~fs.readable THEN "PermissionError"
         ELSE "none"
    ELSE IF fs.exists /\ ~fs.writable THEN "PermissionError"
         ELSE "none"

\* The script with the write-out block placed before the read.
NextStmt_WriteFirst(stmt) ==
    CASE stmt = "argv"    -> "open_w"
      [] stmt = "open_w"  -> "write"
      [] stmt = "write"   -> "close_w"
      [] stmt = "close_w" -> "open_r"
      [] stmt = "open_r"  -> "read"
      [] stmt = "read"    -> "close_r"
      [] stmt = "close_r" -> "replace"
      [] stmt = "replace" -> "exit"

\* The statement that follows stmt in the script's text.
NextStmt(stmt) ==
    CASE stmt = "argv"    -> "open_r"
      [] stmt = "open_r"  -> "read"
      [] stmt = "read"    -> "close_r"
      [] stmt = "close_r" -> "replace"
      [] stmt = "replace" -> "open_w"
      [] stmt = "open_w"  -> "write"
      [] stmt = "write"   -> "close_w"
      [] stmt = "close_w" -> "exit"

\* Files opened without a with block: an exception leaves at once.
Raise_NoWith(at) == "exit"

\* Where control goes when the statement at `at` raises: out of the module,
\* through the enclosing with block's close when there is one.
Raise(at) ==
    CASE at = "read"  -> "close_r"
      [] at = "write" -> "close_w"
      [] OTHER        -> "exit"

\* An exception swallowed at the end of the block: the script goes on.
AfterClose_Swallow(stmt) == NextStmt(stmt)

\* Where control goes after the with block ending at stmt has closed its
\* file: on, or out of the module when an exception is propagating.
AfterClose(stmt) == IF exc = "none" THEN NextStmt(stmt) ELSE "exit"

\* An exit status that reports only a missing argument: every I/O error
\* is swallowed and the process exits 0.
ExitCode_ArgumentOnly == IF exc = "IndexError" THEN 1 ELSE 0

\* The interpreter's exit status.
ExitCode == IF exc = "none" THEN 0 ELSE 1

---------------------------------------------------------------------------
(* The state after the interpreter has started *)

Init ==
    /\ argv \in CommandLines
    /\ linesep \in LineSeps
    /\ fs \in FileSystems
    /\ fs0 = fs
    /\ pc = "argv"
    /\ patch_path = ""
    /\ filedata = << >>
    /\ handles = {}
    /\ exc = "none"
    /\ failedAt = "none"
    /\ trace = << >>
    /\ exitStatus = -1
    /\ run = 1
    /\ results = << >>

---------------------------------------------------------------------------
(* The statements of the script *)

\* patch_path = sys.argv[1]
GetArg ==
    /\ pc = "argv"
    /\ trace' = Append(trace, "argv")
    /\ IF Len(argv) >= 2
       THEN /\ patch_path' = argv[2]
            /\ pc' = NextStmt("argv")
            /\ UNCHANGED << exc, failedAt >>
       ELSE /\ exc' = "IndexError"
            /\ failedAt' = "argv"
            /\ pc' = Raise("argv")
            /\ UNCHANGED patch_path
    /\ UNCHANGED << argv, linesep, fs, filedata, handles, exitStatus, run, fs0, results >>

\* with open(patch_path, "r") as file:
OpenRead ==
    /\ pc = "open_r"
    /\ trace' = Append(trace, "open_r")
    /\ IF open_error("r") = "none"
       THEN /\ handles' = handles \cup { "r" }
            /\ pc' = NextStmt("open_r")
            /\ UNCHANGED << exc, failedAt >>
       ELSE /\ exc' = open_error("r")
            /\ failedAt' = "open_r"
            /\ pc' = Raise("open_r")
            /\ UNCHANGED handles
    /\ UNCHANGED << argv, linesep, fs, patch_path, filedata, exitStatus, run, fs0, results >>

\* filedata = file.read(): the whole content as text, or the read raises
\* (an I/O error, or bytes the encoding cannot decode) and binds nothing.
Read ==
    /\ pc = "read"
    /\ trace' = Append(trace, "read")
    /\ \/ /\ filedata' = Decode(fs.data)
          /\ pc' = NextStmt("read")
          /\ UNCHANGED << exc, failedAt >>
       \/ /\ exc' = "OSError"
          /\ failedAt' = "read"
          /\ pc' = Raise("read")
          /\ UNCHANGED filedata
    /\ UNCHANGED << argv, linesep, fs, patch_path, handles, exitStatus, run, fs0, results >>

\* the end of the first with block: file.close()
CloseRead ==
    /\ pc = "close_r"
    /\ trace' = Append(trace, "close_r")
    /\ handles' = handles \ { "r" }
    /\ pc' = AfterClose("close_r")
    /\ UNCHANGED << argv, linesep, fs, patch_path, filedata, exc, failedAt,
                    exitStatus, run, fs0, results >>

\* filedata = filedata.replace(SEARCH, REPLACEMENT)
ReplaceTarget ==
    /\ pc = "replace"
    /\ trace' = Append(trace, "replace")
    /\ filedata' = replace(filedata, SEARCH, REPLACEMENT)
    /\ pc' = NextStmt("replace")
    /\ UNCHANGED << argv, linesep, fs, patch_path, handles, exc, failedAt,
                    exitStatus, run, fs0, results >>

\* with open(patch_path, "w") as file:   (creates or truncates the file)
OpenWrite ==
    /\ pc = "open_w"
    /\ trace' = Append(trace, "open_w")
    /\ IF open_error("w") = "none"
       THEN /\ fs' = [fs EXCEPT !.exists = TRUE, !.data = << >>]
            /\ handles' = handles \cup { "w" }
            /\ pc' = NextStmt("open_w")
            /\ UNCHANGED << exc, failedAt >>
       ELSE /\ exc' = open_error("w")
            /\ failedAt' = "open_w"
            /\ pc' = Raise("open_w")
            /\ UNCHANGED << fs, handles >>
    /\ UNCHANGED << argv, linesep, patch_path, filedata, exitStatus, run, fs0, results >>

\* file.write(filedata): the whole text reaches the disk, or the write fails
\* with only some leading bytes of it on disk.  The file object buffers, so
\* the bytes may reach the disk as late as the flush of the block's close;
\* a failure of that flush is a failure of this step.
Write ==
    /\ pc = "write"
    /\ trace' = Append(trace, "write")
    /\ \/ /\ fs' = [fs EXCEPT !.data = Encode(filedata)]
          /\ pc' = NextStmt("write")
          /\ UNCHANGED << exc, failedAt >>
       \/ \E n \in 0..(Len(Encode(filedata)) - 1) :
          /\ fs' = [fs EXCEPT !.data = SubSeq(Encode(filedata), 1, n)]
          /\ exc' = "OSError"
          /\ failedAt' = "write"
          /\ pc' = Raise("write")
    /\ UNCHANGED << argv, linesep, patch_path, filedata, handles, exitStatus, run, fs0, results >>

\* the end of the second with block: file.close()
CloseWrite ==
    /\ pc = "close_w"
    /\ trace' = Append(trace, "close_w")
    /\ handles' = handles \ { "w" }
    /\ pc' = AfterClose("close_w")
    /\ UNCHANGED << argv, linesep, fs, patch_path, filedata, exc, failedAt,
                    exitStatus, run, fs0, results >>

\* the end of the module, or an uncaught exception: the interpreter exits
Exit ==
    /\ pc = "exit"
    /\ exitStatus' = ExitCode
    /\ results' = Append(results, fs.data)
    /\ pc' = "done"
    /\ UNCHANGED << argv, linesep, fs, patch_path, filedata, handles, exc, failedAt,
                    trace, run, fs0 >>

\* The script is run again on the same path after a successful run.
Rerun ==
    /\ pc = "done"
    /\ exitStatus = 0
    /\ run < MaxRuns
    /\ run' = run + 1
    /\ fs0' = fs
    /\ pc' = "argv"
    /\ patch_path' = ""
    /\ filedata' = << >>
    /\ trace' = << >>
    /\ exitStatus' = -1
    /\ UNCHANGED << argv, linesep, fs, handles, exc, failedAt, results >>

Next ==
    \/ GetArg
    \/ OpenRead
    \/ Read
    \/ CloseRead
    \/ ReplaceTarget
    \/ OpenWrite
    \/ Write
    \/ CloseWrite
    \/ Exit
    \/ Rerun

Spec == Init /\ [][Next]_vars

\* The interpreter runs a started script to its end: a statement that can
\* execute does.  Termination does not depend on the file's content, so
\* these runs start from the shorter contents.
LiveInit == Init /\ fs.data \in ContentsUpTo(MaxLiveChunks)

FairSpec == LiveInit /\ [][Next]_vars /\ WF_vars(Next)

---------------------------------------------------------------------------
(* What the properties speak of *)

\* The statement stmt has been executed in this run.
Did(stmt) == \E i \in 1..Len(trace) : trace[i] = stmt

\* It has been executed and did not raise.
Completed(stmt) == Did(stmt) /\ failedAt # stmt

\* The run has ended with exit status 0.
Succeeded == pc = "done" /\ exitStatus = 0

\* The statements of the script in the order of its text.
Order == << "argv", "open_r", "read", "close_r", "replace", "open_w", "write", "close_w" >>

IsPrefix(s, t) == Len(s) <= Len(t) /\ s = SubSeq(t, 1, Len(s))

\* The bytes a successful run leaves for a file that held the bytes b.
Patch(b) == Encode(replace(Decode(b), SEARCH, REPLACEMENT))

---------------------------------------------------------------------------
(* C1 - C4: what a successful run does to the file's bytes *)

\* C1: when the file contains the search literal, after a successful run the
\* file holds the replacement literal at the position where the (first)
\* search literal started, and the search literal occurs nowhere in it.
C1_ReplacementApplied ==
    (Succeeded /\ Occurrences(fs0.data, SEARCH) # {}) =>
        /\ First(Occurrences(fs0.data, SEARCH)) \in Occurrences(fs.data, REPLACEMENT)
        /\ Occurrences(fs.data, SEARCH) = {}

\* C2: when the file does not contain the search literal, after a successful
\* run its bytes are the bytes it held before the run.
C2_NoOpWhenAbsent ==
    (Succeeded /\ Occurrences(fs0.data, SEARCH) = {}) => fs.data = fs0.data

\* C3: when the file contains the search literal k >= 1 times, after a
\* successful run its bytes are the original bytes with every occurrence
\* replaced, and k replacement literals have been introduced.
C3_EveryOccurrence ==
    (Succeeded /\ Occurrences(fs0.data, SEARCH) # {}) =>
        /\ fs.data = ReplaceAll(fs0.data, SEARCH, REPLACEMENT)
        /\ Cardinality(Occurrences(fs.data, REPLACEMENT))
             = Cardinality(Occurrences(fs0.data, REPLACEMENT))
                 + Cardinality(Occurrences(fs0.data, SEARCH))

\* C4: when the file is prefix + search literal + suffix, after a successful
\* run it is the patched prefix + replacement literal + the patched suffix,
\* and a prefix and suffix without the search literal are left as they were.
C4_SurroundingPreserved ==
    Succeeded =>
        \A i \in Occurrences(fs0.data, SEARCH) :
            LET prefix == SubSeq(fs0.data, 1, i - 1)
                suffix == SubSeq(fs0.data, i + Len(SEARCH), Len(fs0.data))
            IN  /\ fs.data = Patch(prefix) \o REPLACEMENT \o Patch(suffix)
                /\ (Occurrences(prefix, SEARCH) = {} /\ Occurrences(suffix, SEARCH) = {})
                      => fs.data = prefix \o REPLACEMENT \o suffix

---------------------------------------------------------------------------
(* C5: idempotence *)

\* C5: a second (and any later) successful run on the same file leaves the
\* bytes the first successful run left.
C5_Idempotent ==
    (Succeeded /\ run >= 2) => fs.data = results[1]

\* A second run has succeeded on a file in which the first run replaced the
\* literal.
C5_Witness ==
    Succeeded /\ run = 2 /\ Occurrences(results[1], REPLACEMENT) # {}

---------------------------------------------------------------------------
(* C6: the path names no file *)

\* C6: when the path argument names a file that does not exist, the
\* open-for-read raises FileNotFoundError, neither the read nor the
\* open-for-write is ever reached, the run ends with a non-zero status and
\* no file exists at the path.
C6_MissingFile ==
    (Len(argv) >= 2 /\ ~fs0.exists) =>
        /\ ~fs.exists
        /\ ~Did("read")
        /\ ~Did("open_w")
        /\ (pc \in { "exit", "done" } =>
                exc = "FileNotFoundError" /\ failedAt = "open_r")
        /\ (pc = "done" => exitStatus = 1)

\* A run on a missing path has ended.
C6_Witness ==
    pc = "done" /\ Len(argv) >= 2 /\ ~fs0.exists

---------------------------------------------------------------------------
(* C7: errors are not recovered *)

\* C7: once a statement has raised, no further statement of the script runs
\* (only the enclosing with block closes its file, then the process exits
\* with the same exception and a non-zero status): nothing is opened, read,
\* replaced or written, and no statement is ever executed twice in a run.
C7_ErrorsTerminate ==
    [][ /\ (exc # "none" =>
              /\ exc' = exc
              /\ failedAt' = failedAt
              /\ fs' = fs
              /\ filedata' = filedata
              /\ patch_path' = patch_path
              /\ handles' \subseteq handles
              /\ trace' \in { trace, Append(trace, "close_r"), Append(trace, "close_w") }
              /\ pc' \in { "exit", "done" }
              /\ exitStatus' # 0)
        /\ (Len(trace') > Len(trace) => ~Did(trace'[Len(trace')]))
      ]_vars

\* A run whose read raised has ended.
C7_Witness ==
    pc = "done" /\ failedAt = "read" /\ exitStatus = 1

---------------------------------------------------------------------------
(* C8: termination and the exit status *)

\* C8: every started run ends, and it ends with status 0 exactly when the
\* argument lookup, the read and the write have completed without raising;
\* otherwise it ends with a non-zero status.
C8_TerminatesWithStatus ==
    /\ (pc = "argv") ~> (pc = "done")
    /\ [](pc = "done" =>
            /\ exitStatus \in { 0, 1 }
            /\ exitStatus = 0 <=>
                 (Completed("argv") /\ Completed("read") /\ Completed("write")))

\* A run has ended with status 0 after its write completed.
C8_Witness ==
    pc = "done" /\ exitStatus = 0 /\ Completed("write") /\ run = 1

---------------------------------------------------------------------------
(* C9: the order of the file operations and the life of the handles *)

\* C9: the statements run in the order open-for-read, read, close,
\* (replace,) open-for-write, write, close; the read returns the whole
\* content and the write stores the whole text; a handle is open exactly
\* between its open and its close, so at most one is open at a time; and
\* none is open when the process exits, whether or not a statement raised.
C9_ScopedSequentialHandles ==
    /\ IsPrefix(trace, Order)
    /\ Cardinality(handles) <= 1
    /\ "r" \in handles <=> (Completed("open_r") /\ ~Did("close_r"))
    /\ "w" \in handles <=> (Completed("open_w") /\ ~Did("close_w"))
    /\ pc \in { "exit", "done" } => handles = {}
    /\ (Completed("read") /\ ~Did("replace")) => filedata = Decode(fs.data)
    /\ Completed("write") => fs.data = Encode(filedata)

\* A run whose write raised has ended.
C9_Witness ==
    pc = "done" /\ failedAt = "write" /\ handles = {}

---------------------------------------------------------------------------
(* C10: when the file can change *)

\* C10: the file is as it was at the start of the run until the replacement
\* has been computed and the open-for-write has succeeded; a run that fails
\* at the argument lookup, the open-for-read, the read or the open-for-write
\* leaves it so; and a run ends with bytes that are neither the original nor
\* the transformed text only when the write raised.
C10_FileUntouchedBeforeWrite ==
    /\ ~Did("replace") => fs = fs0
    /\ ~Completed("open_w") => fs = fs0
    /\ failedAt \in { "argv", "open_r", "read", "open_w" } => fs = fs0
    /\ (pc = "done" /\ failedAt # "write") =>
          (fs.data = fs0.data \/ fs.data = Patch(fs0.data))

\* A run has ended with bytes that are neither the original nor the
\* transformed text.
C10_Witness ==
    pc = "done" /\ failedAt = "write" /\ fs.data \notin { fs0.data, Patch(fs0.data) }

===========================================================================
